---------------------------- MODULE Spec2Model ----------------------------
(***************************************************************************)
(* A model of nmt-keras' glue code: data_engine/prepare_data.py            *)
(* (keep_n_captions, build_dataset, update_dataset_from_file) and main.py  *)
(* (the command line, check_params and the dispatch to training or         *)
(* sampling).                                                              *)
(*                                                                         *)
(* The Dataset object of keras_wrapper is a record ds: len, X, Y and       *)
(* extra_variables by split, ids_inputs, ids_outputs and optional_inputs.  *)
(* An entry of a list is <<id, p>>: the entry the list of id held at       *)
(* position p (from 0) when the dataset was made, so a reduced list tells  *)
(* where each of its entries came from.                                    *)
(*                                                                         *)
(* A Python value the command line can produce is <<type, text>>.          *)
(* A raised exception ends the run in a pc of its own ("..._raised").      *)
(***************************************************************************)
EXTENDS Integers, Sequences, FiniteSets, TLC

VARIABLES
    ds,          \* the Dataset instance
    pc,          \* where the running function is
    call,        \* the arguments and locals of the running function
    pre,         \* the Dataset as it was when the function was entered
    log,         \* the calls made so far on the dataset, the wrapper and the models
    parameters,  \* the parameter dictionary
    out          \* what the process printed, warned and exited with

vars == <<ds, pc, call, pre, log, parameters, out>>

(***************************************************************************)
(* Bounds of the model.                                                    *)
(***************************************************************************)
MaxLen == 6
MaxRepeat == 3
MaxN == 3

Splits == {"train", "val", "test"}

Min(a, b) == IF a < b THEN a ELSE b

RECURSIVE Flatten(_)
Flatten(ss) == IF ss = <<>> THEN <<>> ELSE Head(ss) \o Flatten(Tail(ss))

(***************************************************************************)
(* Python's range(start, stop, step), step > 0, as a sequence.             *)
(***************************************************************************)
range(start, stop, step) ==
    IF stop <= start THEN <<>>
    ELSE [k \in 1..((stop - start + step - 1) \div step) |-> start + (k - 1) * step]

(***************************************************************************)
(* keep_n_captions, the input lists (lines 289-304).                       *)
(* KeptIndexes: the positions i + j the two loops read, in order.          *)
(***************************************************************************)
KeptIndexes(n_samples, repeat, n) ==
    LET groups == range(0, n_samples, repeat)
    IN  Flatten([g \in 1..Len(groups) |-> [j \in 1..n |-> groups[g] + (j - 1)]])

\* X[id_in][i + j] raises KeyError (no such id) or IndexError (past the end).
ReadRaises(X, id, idx) ==
    /\ idx # <<>>
    /\ \/ id \notin DOMAIN X
       \/ \E q \in 1..Len(idx) : idx[q] >= Len(X[id])

\* Mutant: new_X.insert(0, ...) for new_X.append(...), the kept entries reversed.
new_X_Reversed(X, id_in, n_samples, repeat, n) ==
    LET idx == KeptIndexes(n_samples, repeat, n)
    IN  [q \in 1..Len(idx) |-> X[id_in][idx[Len(idx) + 1 - q] + 1]]

new_X(X, id_in, n_samples, repeat, n) ==
    LET idx == KeptIndexes(n_samples, repeat, n)
    IN  [q \in 1..Len(idx) |-> X[id_in][idx[q] + 1]]

\* Mutant: the except clause around every input, optional or not.
CatchEvery(d, id_in) == TRUE

\* The except clause of lines 297-298: the failure of an optional input is dropped.
CatchOptional(d, id_in) == id_in \in d.optional_inputs

RECURSIVE ProcessInputs(_, _, _, _, _, _)
ProcessInputs(d, s, ids, n_samples, repeat, n) ==
    IF ids = <<>> THEN [ds |-> d, raised |-> FALSE]
    ELSE
        LET id_in == Head(ids)
            idx == KeptIndexes(n_samples, repeat, n)
        IN  IF ReadRaises(d.X[s], id_in, idx)
            THEN IF CatchOptional(d, id_in)
                 THEN ProcessInputs(d, s, Tail(ids), n_samples, repeat, n)
                 ELSE [ds |-> d, raised |-> TRUE]
            ELSE ProcessInputs(
                    [d EXCEPT !.X[s] = (id_in :> new_X(d.X[s], id_in, n_samples, repeat, n)) @@ @],
                    s, Tail(ids), n_samples, repeat, n)

(***************************************************************************)
(* keep_n_captions, the output lists (lines 306-320).                      *)
(***************************************************************************)
AllIndexes(n_samples, repeat) ==
    LET groups == range(0, n_samples, repeat)
    IN  Flatten([g \in 1..Len(groups) |-> [j \in 1..repeat |-> groups[g] + (j - 1)]])

\* Mutant: the loop of line 311 begun at 1, range(1, n_samples, repeat).
new_Y_FromSecond(Y, id_out, n_samples, repeat, n) ==
    LET groups == range(1, n_samples, repeat)
    IN  Flatten([g \in 1..Len(groups) |->
                    [j \in 1..Min(n, Min(repeat, n_samples - groups[g])) |->
                        Y[id_out][groups[g] + j]]])

\* Mutant: line 314's test 'j < n' dropped, every entry is kept.
new_Y_NoTest(Y, id_out, n_samples, repeat, n) ==
    LET groups == range(0, n_samples, repeat)
    IN  Flatten([g \in 1..Len(groups) |->
                    [j \in 1..repeat |-> Y[id_out][groups[g] + j]]])

new_Y(Y, id_out, n_samples, repeat, n) ==
    LET groups == range(0, n_samples, repeat)
    IN  Flatten([g \in 1..Len(groups) |->
                    [j \in 1..Min(n, repeat) |-> Y[id_out][groups[g] + j]]])

\* Mutant: the mapping keyed by i, the position of the group, not by count_samples.
dict_Y_KeyedByPosition(Y, id_out, n_samples, repeat) ==
    LET groups == range(0, n_samples, repeat)
    IN  [i \in {groups[g] : g \in 1..Len(groups)} |->
            [j \in 1..repeat |-> Y[id_out][i + j]]]

dict_Y(Y, id_out, n_samples, repeat) ==
    LET groups == range(0, n_samples, repeat)
    IN  [count_samples \in 0..(Len(groups) - 1) |->
            [j \in 1..repeat |-> Y[id_out][groups[count_samples + 1] + j]]]

RECURSIVE ProcessOutputs(_, _, _, _, _, _)
ProcessOutputs(d, s, ids, n_samples, repeat, n) ==
    IF ids = <<>> THEN [ds |-> d, raised |-> FALSE]
    ELSE
        LET id_out == Head(ids)
        IN  IF ReadRaises(d.Y[s], id_out, AllIndexes(n_samples, repeat))
            THEN [ds |-> d, raised |-> TRUE]
            ELSE ProcessOutputs(
                    [d EXCEPT
                        !.Y[s] = (id_out :> new_Y(d.Y[s], id_out, n_samples, repeat, n)) @@ @,
                        !.extra_variables[s] =
                            (id_out :> dict_Y(d.Y[s], id_out, n_samples, repeat)) @@ @],
                    s, Tail(ids), n_samples, repeat, n)

(***************************************************************************)
(* keep_n_captions, one turn of the loop over set_names (lines 281-324).   *)
(* With no output id, new_Y is unbound at line 322: NameError.             *)
(***************************************************************************)
KeepSplit(d, s, repeat, n) ==
    LET n_samples == d.len[s]
        d0 == [d EXCEPT !.extra_variables = (s :> <<>>) @@ @]
        ins == ProcessInputs(d0, s, d0.ids_inputs, n_samples, repeat, n)
        outs == ProcessOutputs(ins.ds, s, d0.ids_outputs, n_samples, repeat, n)
        last == d0.ids_outputs[Len(d0.ids_outputs)]
    IN  IF ins.raised THEN ins
        ELSE IF outs.raised THEN outs
        ELSE IF d0.ids_outputs = <<>> THEN [ds |-> outs.ds, raised |-> TRUE]
        ELSE [ds |-> [outs.ds EXCEPT !.len[s] = Len(outs.ds.Y[s][last])],
              raised |-> FALSE]

\* The whole call: the loop over set_names, stopped by the first exception.
RECURSIVE KeepRun(_, _, _, _)
KeepRun(d, set_names, repeat, n) ==
    IF set_names = <<>> THEN [ds |-> d, raised |-> FALSE]
    ELSE LET r == KeepSplit(d, Head(set_names), repeat, n)
         IN  IF r.raised THEN r ELSE KeepRun(r.ds, Tail(set_names), repeat, n)

\* set_names=None, the default of the parameter: no split is called "None".
NoneNames == <<"None">>

\* Lines 279-280.
DefaultSetNames(set_names) == IF set_names = NoneNames THEN <<"val", "test">> ELSE set_names

(***************************************************************************)
(* The datasets keep_n_captions is given.  Every list of a split has the   *)
(* split's length (the wrapper checks it when a list is set), but for an   *)
(* optional input, which may be absent or a 'ghost' (an empty list).       *)
(***************************************************************************)
FullList(id, L) == [p \in 1..L |-> <<id, p - 1>>]

InputList(id, s, L, optional, kind) ==
    IF id \in optional /\ s # "train" /\ kind = "ghost" THEN <<>> ELSE FullList(id, L)

Dataset(len, ids_in, optional, kind, ids_out) ==
    [len |-> len,
     X |-> [s \in Splits |->
              [id \in {ids_in[k] : k \in 1..Len(ids_in)} \
                      (IF kind = "absent" /\ s # "train" THEN optional ELSE {}) |->
                  InputList(id, s, len[s], optional, kind)]],
     Y |-> [s \in Splits |->
              [id \in {ids_out[k] : k \in 1..Len(ids_out)} |-> FullList(id, len[s])]],
     extra_variables |-> <<>>,
     ids_inputs |-> ids_in,
     ids_outputs |-> ids_out,
     optional_inputs |-> optional]

InputConfigs ==
    {[ids |-> <<"source_text">>, optional |-> {}, kind |-> "full"],
     [ids |-> <<"source_text", "state_below">>, optional |-> {}, kind |-> "full"]}
    \cup {[ids |-> <<"source_text", "state_below">>, optional |-> {"state_below"}, kind |-> k] :
            k \in {"full", "ghost", "absent"}}

OutputConfigs == {<<>>, <<"target_text">>, <<"target_text", "target_2">>}

TrainLen == 2

Datasets(Lens) ==
    {Dataset([s \in Splits |-> IF s = "train" THEN TrainLen ELSE l[s]],
             c.ids, c.optional, c.kind, o) :
        l \in [{"val", "test"} -> Lens], c \in InputConfigs, o \in OutputConfigs}

\* Lists of splits to process: no split twice.
EvalSets == {<<>>, <<"val">>, <<"test">>, <<"val", "test">>, <<"test", "val">>}

SetNames == EvalSets \cup {NoneNames}

NoParameters == <<>>
NoOutput == [stdout |-> <<>>, warnings |-> <<>>, status |-> "running"]
NoDataset == <<>>

(***************************************************************************)
(* keep_n_captions(ds, repeat, n, set_names) as a process of its own.      *)
(***************************************************************************)
KeepInit ==
    /\ ds \in Datasets(0..MaxLen)
    /\ pc = "keep_enter"
    /\ call \in [repeat : 1..MaxRepeat, n : 0..MaxN, set_names : SetNames, todo : {<<>>}]
    /\ pre = NoDataset
    /\ log = <<>>
    /\ parameters = NoParameters
    /\ out = NoOutput

\* Lines 275-280.
keep_enter ==
    /\ pc = "keep_enter"
    /\ pc' = "keep_loop"
    /\ pre' = ds
    /\ call' = [call EXCEPT !.set_names = DefaultSetNames(@),
                            !.todo = DefaultSetNames(call.set_names)]
    /\ UNCHANGED <<ds, log, parameters, out>>

\* Lines 281-324, one split.
keep_split ==
    /\ pc = "keep_loop"
    /\ call.todo # <<>>
    /\ LET r == KeepSplit(ds, Head(call.todo), call.repeat, call.n)
       IN  /\ ds' = r.ds
           /\ pc' = IF r.raised THEN "keep_raised" ELSE "keep_loop"
           /\ call' = IF r.raised THEN call ELSE [call EXCEPT !.todo = Tail(@)]
    /\ UNCHANGED <<pre, log, parameters, out>>

\* The loop is over: the function returns.
keep_return ==
    /\ pc = "keep_loop"
    /\ call.todo = <<>>
    /\ pc' = "keep_returned"
    /\ UNCHANGED <<ds, call, pre, log, parameters, out>>

KeepNext == keep_enter \/ keep_split \/ keep_return

KeepSpec == KeepInit /\ [][KeepNext]_vars

(***************************************************************************)
(* keep_n_captions called again on the Dataset it returned, as the load    *)
(* path of build_dataset (line 260) does with a Dataset that line 249      *)
(* processed before it was saved, and as the loop of                       *)
(* update_dataset_from_file (line 117) does split after split.  The log    *)
(* holds the Dataset each earlier call returned.                           *)
(***************************************************************************)
MaxCalls == 3

AgainInit ==
    /\ ds \in Datasets(0..MaxLen)
    /\ pc = "keep_enter"
    /\ call \in [repeat : {1, 2}, n : {1}, set_names : SetNames, todo : {<<>>}]
    /\ pre = NoDataset
    /\ log = <<>>
    /\ parameters = NoParameters
    /\ out = NoOutput

\* The next call, with the same arguments, on the Dataset the last one returned.
keep_again ==
    /\ pc = "keep_returned"
    /\ Len(log) + 1 < MaxCalls
    /\ pc' = "keep_enter"
    /\ log' = Append(log, [fn |-> "keep_n_captions", returned |-> ds])
    /\ UNCHANGED <<ds, call, pre, parameters, out>>

AgainNext == keep_enter \/ keep_split \/ keep_return \/ keep_again

AgainSpec == AgainInit /\ [][AgainNext]_vars

(***************************************************************************)
(* main.py: Python values.  A value is <<type, text>>; str values keep     *)
(* their characters, so that slicing and comparing act on them.            *)
(***************************************************************************)
PyStr(text) == <<"str", text>>
PyBool(b) == <<"bool", IF b THEN "True" ELSE "False">>
PyInt(digits) == <<"int", digits>>
PyNone == <<"NoneType", "None">>

\* Python's truth value of an object.
Truthy(v) == v \notin {PyBool(FALSE), PyInt("0"), PyStr(""), PyNone}

Digits == {"0", "1", "2"}

\* ast.literal_eval(v): the literal v denotes, or a failure (ValueError, SyntaxError).
literal_eval(v) ==
    IF v \in {"True", "False"} THEN [ok |-> TRUE, value |-> <<"bool", v>>]
    ELSE IF v = "None" THEN [ok |-> TRUE, value |-> PyNone]
    ELSE IF v \in Digits THEN [ok |-> TRUE, value |-> PyInt(v)]
    ELSE IF Len(v) >= 2 /\ SubSeq(v, 1, 1) = "'" /\ SubSeq(v, Len(v), Len(v)) = "'"
         THEN [ok |-> TRUE, value |-> PyStr(SubSeq(v, 2, Len(v) - 1))]
    ELSE [ok |-> FALSE, value |-> PyNone]

\* arg.split('='): the pieces of arg between its '=' characters.
RECURSIVE SplitFrom(_, _, _)
SplitFrom(arg, i, piece) ==
    IF i > Len(arg) THEN <<piece>>
    ELSE IF SubSeq(arg, i, i) = "="
         THEN <<piece>> \o SplitFrom(arg, i + 1, "")
         ELSE SplitFrom(arg, i + 1, piece \o SubSeq(arg, i, i))

\* Mutant: arg.split('=', 1), which splits at the first '=' only.
arg_split_AtFirst(arg) ==
    LET pieces == SplitFrom(arg, 1, "")
        RECURSIVE Join(_)
        Join(ps) == IF Len(ps) = 1 THEN ps[1] ELSE ps[1] \o "=" \o Join(Tail(ps))
    IN  IF Len(pieces) <= 2 THEN pieces ELSE <<pieces[1], Join(Tail(pieces))>>

arg_split(arg) == SplitFrom(arg, 1, "")

\* Mutant: the value stored as the raw string, never evaluated.
ApplyOverride_Raw(params, k, v) == (k :> PyStr(v)) @@ params

\* Lines 343-346: parameters[k] = ast.literal_eval(v), or v when that fails.
ApplyOverride(params, k, v) ==
    LET lit == literal_eval(v)
    IN  (k :> (IF lit.ok THEN lit.value ELSE PyStr(v))) @@ params

NpyMessage == "It seems that the pretrained word vectors provided for the target text are not in npy format."

\* Lines 310 and 314: params[key] and params[key][:-1] != '.npy'.
NotNpy(value) ==
    /\ Truthy(value)
    /\ SubSeq(value[2], 1, Len(value[2]) - 1) # ".npy"

\* Slicing raises TypeError for a true value that is no string.
SliceRaises(value) == Truthy(value) /\ value[1] # "str"

\* Mutant: the assertion of lines 307-309 left out.
check_params_NoAssert(params) ==
    [raised |-> "",
     warnings |-> (IF NotNpy(params["SRC_PRETRAINED_VECTORS"]) THEN <<NpyMessage>> ELSE <<>>)
                  \o (IF NotNpy(params["TRG_PRETRAINED_VECTORS"]) THEN <<NpyMessage>> ELSE <<>>)]

\* Mutant: the path check raising instead of warning.
check_params_PathRaises(params) ==
    IF Truthy(params["POS_UNK"]) /\ ~Truthy(params["OPTIMIZED_SEARCH"])
    THEN [raised |-> "AssertionError", warnings |-> <<>>]
    ELSE IF NotNpy(params["SRC_PRETRAINED_VECTORS"]) \/ NotNpy(params["TRG_PRETRAINED_VECTORS"])
    THEN [raised |-> "ValueError", warnings |-> <<>>]
    ELSE [raised |-> "", warnings |-> <<>>]

\* check_params (lines 301-316): the exception it raises ("" for none) and its warnings.
check_params(params) ==
    IF Truthy(params["POS_UNK"]) /\ ~Truthy(params["OPTIMIZED_SEARCH"])
    THEN [raised |-> "AssertionError", warnings |-> <<>>]
    ELSE IF SliceRaises(params["SRC_PRETRAINED_VECTORS"])
    THEN [raised |-> "TypeError", warnings |-> <<>>]
    ELSE IF SliceRaises(params["TRG_PRETRAINED_VECTORS"])
    THEN [raised |-> "TypeError",
          warnings |-> IF NotNpy(params["SRC_PRETRAINED_VECTORS"]) THEN <<NpyMessage>> ELSE <<>>]
    ELSE [raised |-> "",
          warnings |-> (IF NotNpy(params["SRC_PRETRAINED_VECTORS"]) THEN <<NpyMessage>> ELSE <<>>)
                       \o (IF NotNpy(params["TRG_PRETRAINED_VECTORS"]) THEN <<NpyMessage>> ELSE <<>>)]

(***************************************************************************)
(* main.py, the program (lines 331-359).  The parameters load_parameters() *)
(* and the config pickle give, and the overrides of the command line.      *)
(***************************************************************************)
MaxChanges == 2

\* SRC_PRETRAINED_VECTORS and TRG_PRETRAINED_VECTORS as configured.
PretrainedVectors ==
    {<<PyNone, PyNone>>, <<PyStr(""), PyStr("v.npy")>>, <<PyStr("v.npy"), PyStr("")>>,
     <<PyStr(".npyx"), PyStr("vec.txt")>>, <<PyStr("vec.txt"), PyNone>>}

LoadedParameters ==
    {("MODE" :> PyStr(mode)) @@ ("POS_UNK" :> PyBool(pos_unk))
        @@ ("OPTIMIZED_SEARCH" :> PyBool(optimized)) @@ ("RELOAD" :> PyInt(reload))
        @@ ("SRC_PRETRAINED_VECTORS" :> vectors[1]) @@ ("TRG_PRETRAINED_VECTORS" :> vectors[2]) :
        mode \in {"training", "sampling"}, pos_unk \in BOOLEAN, optimized \in BOOLEAN,
        reload \in {"0", "1"}, vectors \in PretrainedVectors}

Overrides ==
    {"MODE='sampling'", "MODE=training", "MODE=0", "POS_UNK=True", "POS_UNK=",
     "OPTIMIZED_SEARCH=False", "NEW=1", "MODE", "MODE=a=b"}

ChangeLists == UNION {[1..m -> Overrides] : m \in 0..MaxChanges}

MainInit ==
    /\ ds = NoDataset
    /\ pre = NoDataset
    /\ pc = "main_changes"
    /\ parameters \in LoadedParameters
    /\ \E changes \in ChangeLists :
          call = [changes |-> changes, todo |-> changes, loaded |-> parameters]
    /\ log = <<>>
    /\ out = NoOutput

\* Lines 337-346, one turn of the loop over args.changes.
main_override ==
    /\ pc = "main_changes"
    /\ call.todo # <<>>
    /\ LET arg == Head(call.todo)
           pieces == arg_split(arg)
       IN  IF Len(pieces) # 2
           THEN \* ValueError on unpacking: lines 340-342
                /\ out' = [out EXCEPT
                             !.stdout = Append(@, "Overwritten arguments must have the form key=Value."),
                             !.status = "exit(1)"]
                /\ pc' = "main_exited"
                /\ UNCHANGED <<parameters, call>>
           ELSE /\ parameters' = ApplyOverride(parameters, pieces[1], pieces[2])
                /\ call' = [call EXCEPT !.todo = Tail(@)]
                /\ UNCHANGED <<pc, out>>
    /\ UNCHANGED <<ds, pre, log>>

\* Line 351.
main_check_params ==
    /\ pc = "main_changes"
    /\ call.todo = <<>>
    /\ LET r == check_params(parameters)
       IN  /\ out' = [out EXCEPT !.warnings = @ \o r.warnings,
                                 !.status = IF r.raised = "" THEN @ ELSE r.raised]
           /\ pc' = IF r.raised = "" THEN "main_mode" ELSE "main_raised"
    /\ log' = Append(log, "check_params")
    /\ UNCHANGED <<ds, pre, call, parameters>>

\* Lines 352-357.
main_mode ==
    /\ pc = "main_mode"
    /\ IF parameters["MODE"] = PyStr("training")
       THEN pc' = "train_model" /\ log' = Append(log, "train_model")
       ELSE IF parameters["MODE"] = PyStr("sampling")
       THEN pc' = "apply_NMT_model" /\ log' = Append(log, "apply_NMT_model")
       ELSE pc' = "main_end" /\ log' = log
    /\ UNCHANGED <<ds, pre, call, parameters, out>>

\* train_model, lines 23-26.
train_check_params ==
    /\ pc = "train_model"
    /\ LET r == check_params(parameters)
       IN  /\ out' = [out EXCEPT !.warnings = @ \o r.warnings,
                                 !.status = IF r.raised = "" THEN @ ELSE r.raised]
           /\ pc' = IF r.raised = "" THEN "train_data" ELSE "main_raised"
    /\ log' = Append(log, "check_params")
    /\ UNCHANGED <<ds, pre, call, parameters>>

\* train_model, lines 28-31.
train_build_dataset ==
    /\ pc = "train_data"
    /\ pc' = "train_net"
    /\ log' = Append(log, "build_dataset")
    /\ UNCHANGED <<ds, pre, call, parameters, out>>

\* train_model, lines 33-92: the model is built or reloaded, then trained.
train_net ==
    /\ pc = "train_net"
    /\ pc' = "main_end"
    /\ log' = log \o (IF parameters["RELOAD"] = PyInt("0")
                      THEN <<"TranslationModel">>
                      ELSE <<"TranslationModel", "updateModel">>)
                  \o <<"buildCallbacks", "trainNet">>
    /\ UNCHANGED <<ds, pre, call, parameters, out>>

\* apply_NMT_model, lines 103-106.
apply_build_dataset ==
    /\ pc = "apply_NMT_model"
    /\ pc' = "apply_model"
    /\ log' = Append(log, "build_dataset")
    /\ UNCHANGED <<ds, pre, call, parameters, out>>

\* apply_NMT_model, lines 108-170.
apply_model ==
    /\ pc = "apply_model"
    /\ pc' = "main_end"
    /\ log' = log \o <<"loadModel", "evaluate">>
    /\ UNCHANGED <<ds, pre, call, parameters, out>>

\* Line 359.
main_done ==
    /\ pc = "main_end"
    /\ pc' = "main_done"
    /\ out' = [out EXCEPT !.status = "exit(0)"]
    /\ UNCHANGED <<ds, pre, call, parameters, log>>

MainNext ==
    \/ main_override \/ main_check_params \/ main_mode
    \/ train_check_params \/ train_build_dataset \/ train_net
    \/ apply_build_dataset \/ apply_model \/ main_done

MainSpec == MainInit /\ [][MainNext]_vars

(***************************************************************************)
(* prepare_data.py: the calls made on the Dataset and on the wrapper.      *)
(* A call is a record of the function and of the arguments the claims      *)
(* speak of; "-" stands for an argument the call does not pass.            *)
(***************************************************************************)
DsCall(fn, path, split, type, id, tokenization, build_vocabulary, required, offset, overwrite_split) ==
    [fn |-> fn, path |-> path, split |-> split, type |-> type, id |-> id,
     tokenization |-> tokenization, build_vocabulary |-> build_vocabulary,
     required |-> required, offset |-> offset, overwrite_split |-> overwrite_split]

KeepCall(repeat, n, set_names) ==
    [fn |-> "keep_n_captions", repeat |-> repeat, n |-> n, set_names |-> set_names]

StoreCall(fn, path) == [fn |-> fn, path |-> path]

\* dict.get(key) of a dictionary of strings; "None" stands for None.
Get(dict, key) == IF key \in DOMAIN dict THEN dict[key] ELSE "None"

\* Lines 31-34 and 138-141.
conditional_tok(params) ==
    IF params.MAX_INPUT_WORD_LEN > 0 THEN "tokenize_none" ELSE params.TOKENIZATION_METHOD

\* 'dense_text' if 'sparse' in params['LOSS'] else 'text'
OutputType(params) ==
    IF params.LOSS = "sparse_categorical_crossentropy" THEN "dense_text" ELSE "text"

\* base_path + '/' + params['TEXT_FILES'][split] + language
TextPath(params, split, language) ==
    params.DATA_ROOT_PATH \o "/" \o params.TEXT_FILES[split] \o language

\* params['TEXT_FILES']['train'] is missing (KeyError) or None (TypeError on +).
TrainPathRaises(params) == Get(params.TEXT_FILES, "train") = "None"

\* Lines 165 and 185.
RawOutputs(params) == params.ALIGN_FROM_RAW /\ ~params.HOMOGENEOUS_BATCHES

\* build_dataset, lines 147-169: the outputs of 'train'.
TrainOutputCalls(params) ==
    <<DsCall("setOutput", TextPath(params, "train", params.TRG_LAN), "train",
             OutputType(params), params.OUTPUTS_IDS_DATASET[1], conditional_tok(params),
             "True", "-", "-", "-")>>
    \o (IF RawOutputs(params)
        THEN <<DsCall("setRawOutput", TextPath(params, "train", params.TRG_LAN), "train",
                      "file-name", "raw_" \o params.OUTPUTS_IDS_DATASET[1],
                      "-", "-", "-", "-", "-")>>
        ELSE <<>>)

\* build_dataset, lines 172-189: the outputs of 'val' or 'test'.
SplitOutputCalls(params, split) ==
    IF Get(params.TEXT_FILES, split) = "None" THEN <<>>
    ELSE <<DsCall("setOutput", TextPath(params, split, params.TRG_LAN), split,
                  OutputType(params), params.OUTPUTS_IDS_DATASET[1], conditional_tok(params),
                  "-", "-", "-", "-")>>
         \o (IF RawOutputs(params)
             THEN <<DsCall("setRawOutput", TextPath(params, split, params.TRG_LAN), split,
                           "file-name", "raw_" \o params.OUTPUTS_IDS_DATASET[1],
                           "-", "-", "-", "-", "-")>>
             ELSE <<>>)

\* Mutant: the vocabulary built from every split.
build_vocabulary_Every(split) == "True"

\* Lines 195-198.
build_vocabulary(split) == IF split = "train" THEN "True" ELSE "False"

\* build_dataset, lines 194-242: the inputs of a split.
SplitInputCalls(params, split) ==
    IF Get(params.TEXT_FILES, split) = "None" THEN <<>>
    ELSE <<DsCall("setInput", TextPath(params, split, params.SRC_LAN), split, "text",
                  params.INPUTS_IDS_DATASET[1], params.TOKENIZATION_METHOD,
                  build_vocabulary(split), "-", "-", "-")>>
         \o (IF Len(params.INPUTS_IDS_DATASET) > 1
             THEN IF split = "train"
                  THEN <<DsCall("setInput", TextPath(params, split, params.TRG_LAN), split,
                                "text", params.INPUTS_IDS_DATASET[2], conditional_tok(params),
                                params.OUTPUTS_IDS_DATASET[1], "False", "1", "-")>>
                  ELSE <<DsCall("setInput", "None", split, "ghost",
                                params.INPUTS_IDS_DATASET[Len(params.INPUTS_IDS_DATASET)],
                                "-", "-", "False", "-", "-")>>
             ELSE <<>>)
         \o (IF RawOutputs(params)
             THEN <<DsCall("setRawInput", TextPath(params, split, params.SRC_LAN), split,
                           "file-name", "raw_" \o params.INPUTS_IDS_DATASET[1],
                           "-", "-", "-", "-", "-")>>
             ELSE <<>>)

\* Mutant: the word mapping never loaded.
MappingCalls_Never(params) == <<>>

\* Lines 244-246.
MappingCalls(params) ==
    IF params.POS_UNK /\ params.HEURISTIC > 0
    THEN <<StoreCall("loadMapping", params.MAPPING)>>
    ELSE <<>>

\* build_dataset, lines 147-246, when line 150 does not raise.
RegistrationCalls(params) ==
    TrainOutputCalls(params)
    \o SplitOutputCalls(params, "val") \o SplitOutputCalls(params, "test")
    \o SplitInputCalls(params, "train") \o SplitInputCalls(params, "val")
    \o SplitInputCalls(params, "test")
    \o MappingCalls(params)

\* Mutant: the dataset saved on the load path too.
AfterKeep_AlwaysSave(params) == "build_save"

\* Lines 249-252 and 260-262: what follows keep_n_captions.
AfterKeep(params) == IF params.REBUILD_DATASET THEN "build_save" ELSE "build_return"

(***************************************************************************)
(* build_dataset(params) as a process.  call.lines is the number of lines  *)
(* of each text file (of samples of each split of the stored dataset).     *)
(***************************************************************************)
MaxLines == 2

TextFiles ==
    {<<>>, ("train" :> "None"), ("train" :> "training.")}
    \cup {("train" :> "training.") @@ ("val" :> "dev."),
          ("train" :> "training.") @@ ("test" :> "test."),
          ("train" :> "training.") @@ ("val" :> "None") @@ ("test" :> "test."),
          ("train" :> "training.") @@ ("val" :> "dev.") @@ ("test" :> "test.")}

BuildParameters ==
    [REBUILD_DATASET : BOOLEAN,
     TEXT_FILES : TextFiles,
     DATA_ROOT_PATH : {"data"}, SRC_LAN : {"en"}, TRG_LAN : {"de"},
     LOSS : {"categorical_crossentropy", "sparse_categorical_crossentropy"},
     MAX_INPUT_WORD_LEN : {0, 1},
     TOKENIZATION_METHOD : {"tokenize_basic"},
     ALIGN_FROM_RAW : BOOLEAN,
     HOMOGENEOUS_BATCHES : BOOLEAN,
     INPUTS_IDS_DATASET : {<<"source_text">>, <<"source_text", "state_below">>},
     OUTPUTS_IDS_DATASET : {<<"target_text">>},
     POS_UNK : BOOLEAN,
     HEURISTIC : {0, 1},
     MAPPING : {"data/mapping.pkl"},
     EVAL_ON_SETS : EvalSets,
     DATASET_STORE_PATH : {"datasets"}]

\* The Dataset once the splits named by TEXT_FILES are registered (rebuild), or
\* as stored: a second input id is optional, and a ghost in 'val' and 'test'.
BuiltDataset(params, lines, rebuilt) ==
    Dataset([s \in Splits |->
                IF rebuilt /\ Get(params.TEXT_FILES, s) = "None" THEN 0 ELSE lines],
            params.INPUTS_IDS_DATASET,
            {params.INPUTS_IDS_DATASET[k] : k \in 2..Len(params.INPUTS_IDS_DATASET)},
            "ghost",
            params.OUTPUTS_IDS_DATASET)

BuildInit ==
    /\ ds = NoDataset
    /\ pre = NoDataset
    /\ pc = "build_dataset"
    /\ parameters \in BuildParameters
    /\ call \in [lines : 0..MaxLines]
    /\ log = <<>>
    /\ out = NoOutput

\* Lines 129-246: a new Dataset, its outputs, its inputs, the word mapping.
build_new ==
    /\ pc = "build_dataset"
    /\ parameters.REBUILD_DATASET
    /\ IF TrainPathRaises(parameters)
       THEN /\ pc' = "build_raised"
            /\ UNCHANGED <<ds, log>>
       ELSE /\ pc' = "build_keep"
            /\ ds' = BuiltDataset(parameters, call.lines, TRUE)
            /\ log' = log \o RegistrationCalls(parameters)
    /\ UNCHANGED <<pre, call, parameters, out>>

\* Lines 254-257: the stored Dataset is loaded.
build_load ==
    /\ pc = "build_dataset"
    /\ ~parameters.REBUILD_DATASET
    /\ pc' = "build_keep"
    /\ ds' = BuiltDataset(parameters, call.lines, FALSE)
    /\ log' = Append(log, StoreCall("loadDataset", parameters.DATASET_STORE_PATH))
    /\ UNCHANGED <<pre, call, parameters, out>>

\* Lines 249 and 260: keep_n_captions(ds, repeat=1, n=1, set_names=params['EVAL_ON_SETS']).
build_keep ==
    /\ pc = "build_keep"
    /\ LET r == KeepRun(ds, DefaultSetNames(parameters.EVAL_ON_SETS), 1, 1)
       IN  /\ ds' = r.ds
           /\ pc' = IF r.raised THEN "build_raised" ELSE AfterKeep(parameters)
    /\ pre' = ds
    /\ log' = Append(log, KeepCall(1, 1, parameters.EVAL_ON_SETS))
    /\ UNCHANGED <<call, parameters, out>>

\* Line 252.
build_save ==
    /\ pc = "build_save"
    /\ pc' = "build_return"
    /\ log' = Append(log, StoreCall("saveDataset", parameters.DATASET_STORE_PATH))
    /\ UNCHANGED <<ds, pre, call, parameters, out>>

\* Line 262.
build_return ==
    /\ pc = "build_return"
    /\ pc' = "build_returned"
    /\ UNCHANGED <<ds, pre, call, parameters, log, out>>

BuildNext == build_new \/ build_load \/ build_keep \/ build_save \/ build_return

BuildSpec == BuildInit /\ [][BuildNext]_vars

(***************************************************************************)
(* update_dataset_from_file (lines 7-119).  a holds the arguments as they  *)
(* were passed; the loop's own recompute_references is call.recompute and  *)
(* the splits it still has to go through call.todo.                        *)
(***************************************************************************)
\* Mutant: the outputs registered as build_dataset registers those of 'train'.
UpdateOutputCalls_BuildsVocabulary(params, a, split) ==
    IF a.remove_outputs
    THEN <<DsCall("removeOutput", "-", split, OutputType(params),
                  params.OUTPUTS_IDS_DATASET[1], "-", "-", "-", "-", "-")>>
    ELSE IF a.output_text_filename # "None"
    THEN <<DsCall("setOutput", a.output_text_filename, split, OutputType(params),
                  params.OUTPUTS_IDS_DATASET[1], conditional_tok(params),
                  "True", "-", "-", "-")>>
    ELSE <<>>

\* Lines 43-63: the outputs of a split.
UpdateOutputCalls(params, a, split) ==
    IF a.remove_outputs
    THEN <<DsCall("removeOutput", "-", split, OutputType(params),
                  params.OUTPUTS_IDS_DATASET[1], "-", "-", "-", "-", "-")>>
    ELSE IF a.output_text_filename # "None"
    THEN <<DsCall("setOutput", a.output_text_filename, split, OutputType(params),
                  params.OUTPUTS_IDS_DATASET[1], conditional_tok(params),
                  "False", "-", "-", "True")>>
    ELSE <<>>

\* Lines 66-81: the source text of a split.
UpdateInputCalls(params, a, split) ==
    <<DsCall("setInput", a.input_text_filename, split, "text",
             params.INPUTS_IDS_DATASET[1], params.TOKENIZATION_METHOD,
             "False", "-", "-", "True")>>

\* Line 82.
StateBelowFromOutput(a) == a.compute_state_below /\ a.output_text_filename # "None"

\* Line 87: params['INPUTS_IDS_DATASET'][1] raises IndexError with one input id.
StateBelowRaises(params, a) ==
    StateBelowFromOutput(a) /\ Len(params.INPUTS_IDS_DATASET) < 2

\* Lines 82-106: the state below of a split, or a ghost input.
UpdateStateBelowCalls(params, a, split) ==
    IF StateBelowFromOutput(a)
    THEN <<DsCall("setInput", a.output_text_filename, split, "text",
                  params.INPUTS_IDS_DATASET[2], conditional_tok(params),
                  "False", "-", "1", "True")>>
    ELSE <<DsCall("setInput", "None", split, "ghost",
                  params.INPUTS_IDS_DATASET[Len(params.INPUTS_IDS_DATASET)],
                  "-", "-", "False", "-", "True")>>

\* Lines 108-113.
UpdateRawCalls(params, a, split) ==
    IF params.ALIGN_FROM_RAW
    THEN <<DsCall("setRawInput", a.input_text_filename, split, "file-name",
                  "raw_" \o params.INPUTS_IDS_DATASET[1], "-", "-", "-", "-", "True")>>
    ELSE <<>>

\* Lines 42-117, one turn of the loop over splits: the Dataset, the calls made,
\* whether an exception ended it, and recompute_references after it.
UpdateSplit(d, params, a, split, recompute_references) ==
    LET recompute == recompute_references /\ ~a.remove_outputs
        first == UpdateOutputCalls(params, a, split) \o UpdateInputCalls(params, a, split)
        kept == KeepRun(d, DefaultSetNames(params.EVAL_ON_SETS), 1, 1)
    IN  IF StateBelowRaises(params, a)
        THEN [ds |-> d, calls |-> first, raised |-> TRUE, recompute_references |-> recompute]
        ELSE IF recompute
        THEN [ds |-> kept.ds,
              calls |-> first \o UpdateStateBelowCalls(params, a, split)
                        \o UpdateRawCalls(params, a, split)
                        \o <<KeepCall(1, 1, params.EVAL_ON_SETS)>>,
              raised |-> kept.raised, recompute_references |-> recompute]
        ELSE [ds |-> d,
              calls |-> first \o UpdateStateBelowCalls(params, a, split)
                        \o UpdateRawCalls(params, a, split),
              raised |-> FALSE, recompute_references |-> recompute]

\* Mutant: lines 36-37 left out, recompute_references kept as passed.
RecomputeAtEntry_AsPassed(a) == a.recompute_references

\* Lines 36-37.
RecomputeAtEntry(a) ==
    IF a.output_text_filename = "None" THEN FALSE ELSE a.recompute_references

\* Lines 39-40.
DefaultSplits(splits) == IF splits = NoneNames THEN <<"val">> ELSE splits

\* The whole call: the calls it makes on the dataset, in order.
RECURSIVE UpdateLoop(_, _, _, _, _)
UpdateLoop(d, params, a, splits, recompute_references) ==
    IF splits = <<>> THEN [ds |-> d, calls |-> <<>>, raised |-> FALSE]
    ELSE LET r == UpdateSplit(d, params, a, Head(splits), recompute_references)
             rest == UpdateLoop(r.ds, params, a, Tail(splits), r.recompute_references)
         IN  IF r.raised THEN [ds |-> r.ds, calls |-> r.calls, raised |-> TRUE]
             ELSE [ds |-> rest.ds, calls |-> r.calls \o rest.calls, raised |-> rest.raised]

UpdateRun(d, params, a) ==
    UpdateLoop(d, params, a, DefaultSplits(a.splits), RecomputeAtEntry(a))

OutputFilenames == {"None", "out.txt", "ref.txt"}

UpdateParameters ==
    [LOSS : {"categorical_crossentropy", "sparse_categorical_crossentropy"},
     MAX_INPUT_WORD_LEN : {0, 1},
     TOKENIZATION_METHOD : {"tokenize_basic"},
     ALIGN_FROM_RAW : BOOLEAN,
     INPUTS_IDS_DATASET : {<<"source_text">>, <<"source_text", "state_below">>},
     OUTPUTS_IDS_DATASET : {<<"target_text">>},
     EVAL_ON_SETS : {<<"val">>, <<"val", "test">>},
     TEXT_FILES : {<<>>}]

UpdateInit ==
    /\ parameters \in UpdateParameters
    /\ \E lines \in 0..MaxLines : ds = BuiltDataset(parameters, lines, FALSE)
    /\ pre = NoDataset
    /\ pc = "update_dataset_from_file"
    /\ call \in [input_text_filename : {"in.txt"},
                 splits : SetNames,
                 output_text_filename : OutputFilenames,
                 remove_outputs : BOOLEAN,
                 compute_state_below : BOOLEAN,
                 recompute_references : BOOLEAN,
                 todo : {<<>>},
                 recompute : {FALSE}]
    /\ log = <<>>
    /\ out = NoOutput

\* Lines 29-40.
update_enter ==
    /\ pc = "update_dataset_from_file"
    /\ pc' = "update_loop"
    /\ pre' = ds
    /\ call' = [call EXCEPT !.recompute = RecomputeAtEntry(call),
                            !.todo = DefaultSplits(call.splits)]
    /\ UNCHANGED <<ds, log, parameters, out>>

\* Lines 42-117, one split.
update_split ==
    /\ pc = "update_loop"
    /\ call.todo # <<>>
    /\ LET r == UpdateSplit(ds, parameters, call, Head(call.todo), call.recompute)
       IN  /\ ds' = r.ds
           /\ log' = log \o r.calls
           /\ pc' = IF r.raised THEN "update_raised" ELSE "update_loop"
           /\ call' = [call EXCEPT !.todo = IF r.raised THEN @ ELSE Tail(@),
                                   !.recompute = r.recompute_references]
    /\ UNCHANGED <<pre, parameters, out>>

\* Line 119.
update_return ==
    /\ pc = "update_loop"
    /\ call.todo = <<>>
    /\ pc' = "update_returned"
    /\ UNCHANGED <<ds, pre, call, log, parameters, out>>

UpdateNext == update_enter \/ update_split \/ update_return

UpdateSpec == UpdateInit /\ [][UpdateNext]_vars

(***************************************************************************)
(* main.py after check_params: train_model up to buildCallbacks (lines     *)
(* 29-69 and 173-298) and apply_NMT_model (lines 104-170), on the Dataset  *)
(* build_dataset returns.  The reads of dataset.mapping are logged.        *)
(***************************************************************************)
\* Lines 201, 213 and 217 (261, 273 and 275; 127, 139 and 143).
UsesMapping(params) == params.BEAM_SIZE # 0 /\ params.POS_UNK /\ params.HEURISTIC > 0

\* extra_vars['mapping'] = dataset.mapping
MappingRead(by) == [fn |-> "dataset.mapping", by |-> by]

MappingReads(params, by) == IF UsesMapping(params) THEN <<MappingRead(by)>> ELSE <<>>

\* dataset.extra_variables[s][params['OUTPUTS_IDS_DATASET'][0]] raises KeyError.
ReferencesRaise(d, params, sets) ==
    \E k \in 1..Len(sets) :
        \/ sets[k] \notin DOMAIN d.extra_variables
        \/ params.OUTPUTS_IDS_DATASET[1] \notin DOMAIN d.extra_variables[sets[k]]

\* Line 185.
MetricSelected(params) == params.METRICS # <<>>

\* Mutant: the sampling callback built when there are sets to evaluate on.
SamplingSelected_OnEvalSets(params) == params.EVAL_ON_SETS # <<>>

\* Line 247.
SamplingSelected(params) == params.SAMPLE_ON_SETS # <<>>

\* Lines 220-243.
callback_metric(params) ==
    [class |-> "PrintPerformanceMetricOnEpochEndOrEachNUpdates",
     set_name |-> params.EVAL_ON_SETS,
     mapping |-> UsesMapping(params)]

\* Lines 278-296.
callback_sampling(params) ==
    [class |-> "SampleEachNUpdates",
     set_name |-> params.SAMPLE_ON_SETS,
     mapping |-> UsesMapping(params)]

RunParameters ==
    [REBUILD_DATASET : BOOLEAN,
     TEXT_FILES : {("train" :> "None"),
                   ("train" :> "training.") @@ ("test" :> "test."),
                   ("train" :> "training.") @@ ("val" :> "dev.") @@ ("test" :> "test.")},
     DATA_ROOT_PATH : {"data"}, SRC_LAN : {"en"}, TRG_LAN : {"de"},
     LOSS : {"categorical_crossentropy"},
     MAX_INPUT_WORD_LEN : {0},
     TOKENIZATION_METHOD : {"tokenize_basic"},
     ALIGN_FROM_RAW : {TRUE},
     HOMOGENEOUS_BATCHES : {FALSE},
     INPUTS_IDS_DATASET : {<<"source_text">>, <<"source_text", "state_below">>},
     OUTPUTS_IDS_DATASET : {<<"target_text">>},
     POS_UNK : BOOLEAN,
     HEURISTIC : {0, 1},
     MAPPING : {"data/mapping.pkl"},
     EVAL_ON_SETS : EvalSets,
     DATASET_STORE_PATH : {"datasets"},
     MODE : {"training", "sampling"},
     METRICS : {<<>>, <<"coco">>},
     SAMPLE_ON_SETS : {<<>>, <<"train", "val">>},
     BEAM_SIZE : {0, 6}]

RunInit ==
    /\ ds = NoDataset
    /\ pre = NoDataset
    /\ pc = "build_dataset"
    /\ parameters \in RunParameters
    /\ call \in [lines : 0..MaxLines, callbacks : {<<>>}, todo : {<<>>}]
    /\ log = <<>>
    /\ out = NoOutput

\* train_model, lines 29-69, and line 183: callbacks = [].
callbacks_enter ==
    /\ pc = "build_returned"
    /\ parameters.MODE = "training"
    /\ pc' = "callbacks_metric"
    /\ call' = [call EXCEPT !.callbacks = <<>>]
    /\ log' = Append(log, [fn |-> "TranslationModel"])
    /\ UNCHANGED <<ds, pre, parameters, out>>

\* Lines 185-245.
callbacks_metric ==
    /\ pc = "callbacks_metric"
    /\ IF ~MetricSelected(parameters)
       THEN pc' = "callbacks_sampling" /\ UNCHANGED <<call, log>>
       ELSE IF ReferencesRaise(ds, parameters, parameters.EVAL_ON_SETS)
       THEN pc' = "callbacks_raised" /\ UNCHANGED <<call, log>>
       ELSE /\ pc' = "callbacks_sampling"
            /\ log' = log \o MappingReads(parameters, "buildCallbacks")
            /\ call' = [call EXCEPT !.callbacks = Append(@, callback_metric(parameters))]
    /\ UNCHANGED <<ds, pre, parameters, out>>

\* Lines 247-297.
callbacks_sampling ==
    /\ pc = "callbacks_sampling"
    /\ IF ~SamplingSelected(parameters)
       THEN pc' = "callbacks_return" /\ UNCHANGED <<call, log>>
       ELSE IF ReferencesRaise(ds, parameters, parameters.EVAL_ON_SETS)
       THEN pc' = "callbacks_raised" /\ UNCHANGED <<call, log>>
       ELSE /\ pc' = "callbacks_return"
            /\ log' = log \o MappingReads(parameters, "buildCallbacks")
            /\ call' = [call EXCEPT !.callbacks = Append(@, callback_sampling(parameters))]
    /\ UNCHANGED <<ds, pre, parameters, out>>

\* Line 298: return callbacks.
callbacks_return ==
    /\ pc = "callbacks_return"
    /\ pc' = "callbacks_returned"
    /\ UNCHANGED <<ds, pre, call, log, parameters, out>>

\* apply_NMT_model, lines 105-112.
apply_enter ==
    /\ pc = "build_returned"
    /\ parameters.MODE = "sampling"
    /\ pc' = "apply_loop"
    /\ call' = [call EXCEPT !.todo = parameters.EVAL_ON_SETS]
    /\ log' = Append(log, [fn |-> "loadModel"])
    /\ UNCHANGED <<ds, pre, parameters, out>>

\* Lines 112-170, one set of EVAL_ON_SETS.
apply_evaluate ==
    /\ pc = "apply_loop"
    /\ call.todo # <<>>
    /\ IF ReferencesRaise(ds, parameters, <<Head(call.todo)>>)
       THEN pc' = "apply_raised" /\ UNCHANGED <<call, log>>
       ELSE /\ pc' = "apply_loop"
            /\ call' = [call EXCEPT !.todo = Tail(@)]
            /\ log' = log \o MappingReads(parameters, "apply_NMT_model")
                          \o <<[fn |-> "evaluate"]>>
    /\ UNCHANGED <<ds, pre, parameters, out>>

\* The loop of line 112 is over.
apply_return ==
    /\ pc = "apply_loop"
    /\ call.todo = <<>>
    /\ pc' = "apply_returned"
    /\ UNCHANGED <<ds, pre, call, log, parameters, out>>

RunNext ==
    \/ build_new \/ build_load \/ build_keep \/ build_save \/ build_return
    \/ callbacks_enter \/ callbacks_metric \/ callbacks_sampling \/ callbacks_return
    \/ apply_enter \/ apply_evaluate \/ apply_return

RunSpec == RunInit /\ [][RunNext]_vars

(***************************************************************************)
(* Claims about keep_n_captions, under KeepSpec.                           *)
(***************************************************************************)
Processed == {call.set_names[k] : k \in 1..Len(call.set_names)}
OutputIds == {ds.ids_outputs[k] : k \in 1..Len(ds.ids_outputs)}
InputIds == {ds.ids_inputs[k] : k \in 1..Len(ds.ids_inputs)}

\* Every processed split held a multiple of repeat samples when the call began.
WholeGroups == \A s \in Processed : pre.len[s] % call.repeat = 0

\* The first n entries of each consecutive group of r entries of list, in order.
FirstNOfEachGroup(list, r, n) ==
    [q \in 1..(n * (Len(list) \div r)) |-> list[((q - 1) \div n) * r + ((q - 1) % n) + 1]]

\* C1: after keep_n_captions(ds, repeat=r, n) with 1 <= n <= r on splits whose
\* sample count is a multiple of r, every output list of every processed split
\* holds exactly the first n entries of each consecutive group of r original
\* entries, in the original order, and the split's length is n * (original
\* length / r); with an output id in the dataset the call does not raise.
C1_KeepsFirstN ==
    (pc \in {"keep_returned", "keep_raised"}
        /\ 1 <= call.n /\ call.n <= call.repeat /\ WholeGroups)
    => /\ pc = "keep_raised" => ds.ids_outputs = <<>>
       /\ pc = "keep_returned" =>
            \A s \in Processed :
                /\ ds.len[s] = call.n * (pre.len[s] \div call.repeat)
                /\ \A id \in OutputIds :
                      ds.Y[s][id] = FirstNOfEachGroup(pre.Y[s][id], call.repeat, call.n)

\* The example of the specification: r = 3, n = 1, [a1,a2,a3,b1,b2,b3] gives [a1,b1].
C1_Witness ==
    /\ pc = "keep_returned"
    /\ call.repeat = 3 /\ call.n = 1
    /\ "val" \in Processed
    /\ pre.len["val"] = 6
    /\ "target_text" \in OutputIds
    /\ ds.Y["val"]["target_text"] = <<<<"target_text", 0>>, <<"target_text", 3>>>>
    /\ ds.len["val"] = 2

\* C2: after keep_n_captions(ds, repeat=r, n) with n <= r on splits whose sample
\* count L is a multiple of r, extra_variables[split][id] maps exactly the keys
\* 0..L/r-1, and key k to the r original entries at positions k*r..k*r+r-1 in
\* the original order, whatever n is.
C2_SideMappingKeepsAll ==
    (pc = "keep_returned" /\ call.n <= call.repeat /\ WholeGroups)
    => \A s \in Processed : \A id \in OutputIds :
          /\ DOMAIN ds.extra_variables[s][id] = 0..((pre.len[s] \div call.repeat) - 1)
          /\ \A k \in DOMAIN ds.extra_variables[s][id] :
                ds.extra_variables[s][id][k] =
                    SubSeq(pre.Y[s][id], k * call.repeat + 1, k * call.repeat + call.repeat)

C2_Witness ==
    /\ pc = "keep_returned"
    /\ call.repeat = 3 /\ call.n = 1
    /\ "val" \in Processed
    /\ pre.len["val"] = 6
    /\ "target_text" \in OutputIds
    /\ ds.extra_variables["val"]["target_text"] =
          (0 :> <<<<"target_text", 0>>, <<"target_text", 1>>, <<"target_text", 2>>>>)
          @@ (1 :> <<<<"target_text", 3>>, <<"target_text", 4>>, <<"target_text", 5>>>>)

\* Reducing the list of an input id (an output id) of split s raised.
InputRaised(s, id) ==
    ReadRaises(pre.X[s], id, KeptIndexes(pre.len[s], call.repeat, call.n))
OutputRaised(s, id) ==
    ReadRaises(pre.Y[s], id, AllIndexes(pre.len[s], call.repeat))

\* C10 as stated: an exception raised while keep_n_captions reduces an input or
\* an output list of a split, for any input id, optional or not, aborts the
\* call; so a call that returned had none.
C10_AllFailFast ==
    pc = "keep_returned"
    => \A s \in Processed :
          /\ \A id \in InputIds : ~InputRaised(s, id)
          /\ \A id \in OutputIds : ~OutputRaised(s, id)

\* C10 as amended: an exception raised while keep_n_captions reduces the list
\* of a non-optional input id or of an output id aborts the call; one raised
\* for an optional input id is caught, that id's list of the split is left as
\* it was, and the call goes on with the remaining ids and splits.
C10_FailFastButOptional ==
    pc = "keep_returned"
    => \A s \in Processed :
          /\ \A id \in InputIds \ ds.optional_inputs : ~InputRaised(s, id)
          /\ \A id \in OutputIds : ~OutputRaised(s, id)
          /\ \A id \in InputIds \cap ds.optional_inputs :
                InputRaised(s, id) =>
                    /\ (id \in DOMAIN ds.X[s]) = (id \in DOMAIN pre.X[s])
                    /\ id \in DOMAIN pre.X[s] => ds.X[s][id] = pre.X[s][id]

\* A call that returned although reducing an optional ('ghost') input raised.
C10_Witness ==
    /\ pc = "keep_returned"
    /\ "val" \in Processed
    /\ "state_below" \in ds.optional_inputs
    /\ InputRaised("val", "state_below")
    /\ "state_below" \in DOMAIN ds.X["val"]
    /\ ds.X["val"]["state_below"] = <<>>
    /\ ds.len["val"] = 2

(***************************************************************************)
(* Claims about main.py, under MainSpec.                                   *)
(***************************************************************************)
InLog(event) == \E i \in 1..Len(log) : log[i] = event

\* The overrides the loop has been through, in command-line order.
Applied == SubSeq(call.changes, 1, Len(call.changes) - Len(call.todo))

EqualSigns(arg) == {i \in 1..Len(arg) : SubSeq(arg, i, i) = "="}
WellFormed(arg) == Cardinality(EqualSigns(arg)) = 1
KeyOf(arg) == SubSeq(arg, 1, (CHOOSE i \in EqualSigns(arg) : TRUE) - 1)
ValueOf(arg) == SubSeq(arg, (CHOOSE i \in EqualSigns(arg) : TRUE) + 1, Len(arg))
LiteralOrRaw(v) == IF literal_eval(v).ok THEN literal_eval(v).value ELSE PyStr(v)

Last(S) == CHOOSE i \in S : \A j \in S : j <= i

\* What the claim says of each override of the command lines: its key and its value.
WellFormedOverrides == {arg \in Overrides : WellFormed(arg)}
ClaimedKey == [arg \in WellFormedOverrides |-> KeyOf(arg)]
ClaimedValue == [arg \in WellFormedOverrides |-> LiteralOrRaw(ValueOf(arg))]

\* C3: the overrides are applied one by one in command-line order: after each
\* turn of the loop, for every key, parameters[Key] is the literal value of the
\* Value of the last override so far that names Key when that Value parses as
\* a literal and the raw string Value otherwise, and a key no override has
\* named keeps its loaded value.
C3_OverridesInOrder ==
    LET m == Len(Applied)
        key == [i \in 1..m |-> ClaimedKey[call.changes[i]]]
        value == [i \in 1..m |-> ClaimedValue[call.changes[i]]]
    IN  /\ \A i \in 1..m : call.changes[i] \in WellFormedOverrides
        /\ DOMAIN parameters = DOMAIN call.loaded \cup {key[i] : i \in 1..m}
        /\ \A k \in DOMAIN parameters :
              LET naming == {i \in 1..m : key[i] = k}
              IN  IF naming = {}
                  THEN parameters[k] = call.loaded[k]
                  ELSE parameters[k] = value[Last(naming)]

\* A later override of MODE has won over an earlier one, a literal has been
\* evaluated, a new key added and POS_UNK kept as loaded.
C3_Witness ==
    /\ pc = "apply_NMT_model"
    /\ call.changes = <<"MODE=training", "MODE='sampling'">>
    /\ call.loaded["MODE"] = PyStr("training")
    /\ parameters["MODE"] = PyStr("sampling")
    /\ parameters["POS_UNK"] = call.loaded["POS_UNK"]

\* C4: if an override argument does not split on '=' into exactly one key and
\* one value (no '=' at all, or more than one), the process prints a message
\* and terminates with a non-zero exit status, and neither check_params,
\* train_model nor apply_NMT_model is ever started in that run.
C4_MalformedOverrideExits ==
    (\E i \in 1..Len(call.changes) : call.changes[i] \notin WellFormedOverrides)
    => /\ ~InLog("check_params") /\ ~InLog("train_model") /\ ~InLog("apply_NMT_model")
       /\ pc \in {"main_changes", "main_exited"}
       /\ pc = "main_changes" => call.todo # <<>>
       /\ pc = "main_exited" =>
            /\ out.status = "exit(1)"
            /\ out.stdout # <<>>
            /\ ~ENABLED MainNext

C4_Witness ==
    /\ pc = "main_exited"
    /\ call.changes = <<"NEW=1", "MODE=a=b">>
    /\ out.status = "exit(1)"
    /\ parameters["NEW"] = PyInt("1")
    /\ log = <<>>

\* POS_UNK is truthy and OPTIMIZED_SEARCH is falsy.
Inconsistent(params) == Truthy(params["POS_UNK"]) /\ ~Truthy(params["OPTIMIZED_SEARCH"])

\* C5: check_params raises an assertion failure whenever POS_UNK is truthy and
\* OPTIMIZED_SEARCH is falsy, and in the main program this happens before
\* build_dataset is called and before any model is built or loaded, in
\* training and in sampling mode.
C5_AssertionBeforeDataset ==
    Inconsistent(parameters)
    => /\ check_params(parameters).raised = "AssertionError"
       /\ pc \notin {"main_changes", "main_exited"} =>
            /\ pc = "main_raised"
            /\ out.status = "AssertionError"
            /\ log = <<"check_params">>

C5_Witness ==
    /\ pc = "main_raised"
    /\ parameters["MODE"] = PyStr("sampling")
    /\ call.changes = <<"POS_UNK=True", "OPTIMIZED_SEARCH=False">>
    /\ call.loaded["POS_UNK"] = PyBool(FALSE)
    /\ out.status = "AssertionError"
    /\ ~InLog("build_dataset")

\* C6: for any string values of SRC_PRETRAINED_VECTORS and
\* TRG_PRETRAINED_VECTORS, with POS_UNK and OPTIMIZED_SEARCH consistent,
\* check_params at most emits warnings and returns normally, and the run
\* proceeds to the selected mode, training or sampling.
C6_PathWarningsNotFatal ==
    (/\ ~Inconsistent(parameters)
     /\ parameters["SRC_PRETRAINED_VECTORS"][1] = "str"
     /\ parameters["TRG_PRETRAINED_VECTORS"][1] = "str")
    => /\ check_params(parameters).raised = ""
       /\ pc \notin {"main_changes", "main_exited"} =>
            /\ pc # "main_raised"
            /\ out.status \in {"running", "exit(0)"}
            /\ \A i \in 1..Len(out.warnings) : out.warnings[i] = NpyMessage
            /\ pc # "main_mode" =>
                 /\ parameters["MODE"] = PyStr("training") => InLog("train_model")
                 /\ parameters["MODE"] = PyStr("sampling") => InLog("apply_NMT_model")
            /\ pc = "main_mode" => ENABLED main_mode

C6_Witness ==
    /\ pc = "main_done"
    /\ parameters["MODE"] = PyStr("training")
    /\ parameters["SRC_PRETRAINED_VECTORS"] = PyStr("v.npy")
    /\ parameters["TRG_PRETRAINED_VECTORS"] = PyStr("")
    /\ out.warnings # <<>>
    /\ InLog("trainNet")

(***************************************************************************)
(* Claims about build_dataset, under BuildSpec.                            *)
(***************************************************************************)
Calls(fn) == {i \in 1..Len(log) : log[i].fn = fn}

\* The positions in the log of the setOutput and setInput calls of a data id.
Registrations(id) ==
    {i \in 1..Len(log) : log[i].fn \in {"setOutput", "setInput"} /\ log[i].id = id}

\* C8: build_dataset with REBUILD_DATASET true calls saveDataset exactly once,
\* after every setOutput, setInput, setRawInput and loadMapping call and after
\* keep_n_captions, and never calls loadDataset; with REBUILD_DATASET false it
\* calls loadDataset exactly once and makes no setInput, setOutput or
\* saveDataset call.  Either way keep_n_captions runs exactly once (repeat=1,
\* n=1, on EVAL_ON_SETS) before the dataset is returned.
C8_SaveOrLoadOnce ==
    /\ parameters.REBUILD_DATASET => Calls("loadDataset") = {}
    /\ ~parameters.REBUILD_DATASET =>
          Calls("setInput") \cup Calls("setOutput") \cup Calls("saveDataset") = {}
    /\ \A i \in Calls("saveDataset") :
          /\ i = Len(log)
          /\ \E j \in 1..(i - 1) : log[j].fn = "keep_n_captions"
    /\ pc = "build_returned" =>
          /\ Cardinality(Calls("keep_n_captions")) = 1
          /\ \A i \in Calls("keep_n_captions") :
                log[i] = KeepCall(1, 1, parameters.EVAL_ON_SETS)
          /\ parameters.REBUILD_DATASET =>
                /\ Cardinality(Calls("saveDataset")) = 1
                /\ Calls("setOutput") # {} /\ Calls("setInput") # {}
          /\ ~parameters.REBUILD_DATASET =>
                /\ Cardinality(Calls("loadDataset")) = 1
                /\ log[1].fn = "loadDataset"

C8_Witness ==
    /\ pc = "build_returned"
    /\ parameters.REBUILD_DATASET
    /\ Calls("loadMapping") # {} /\ Calls("setRawInput") # {}
    /\ Len(log) >= 2
    /\ log[Len(log)].fn = "saveDataset"
    /\ log[Len(log) - 1].fn = "keep_n_captions"

\* C9: on the rebuild path the vocabulary is built from the training data only
\* and first: for the target output id and for the source input id the 'train'
\* split is registered with build_vocabulary=True before any 'val' or 'test'
\* registration of the same id, and no 'val' or 'test' registration builds a
\* vocabulary, whatever splits TEXT_FILES names.
C9_VocabularyFromTrainFirst ==
    \A id \in {parameters.OUTPUTS_IDS_DATASET[1], parameters.INPUTS_IDS_DATASET[1]} :
        \A i \in Registrations(id) :
            log[i].split \in {"val", "test"} =>
                /\ log[i].build_vocabulary \in {"False", "-"}
                /\ \E j \in Registrations(id) :
                      /\ j < i
                      /\ log[j].split = "train"
                      /\ log[j].build_vocabulary = "True"

C9_Witness ==
    /\ pc = "build_returned"
    /\ parameters.REBUILD_DATASET
    /\ DOMAIN parameters.TEXT_FILES = Splits
    /\ \E i \in Registrations("source_text") :
          log[i].split = "test" /\ log[i].build_vocabulary = "False"
    /\ \E i \in Registrations("target_text") :
          log[i].split = "val" /\ log[i].build_vocabulary = "-"

(***************************************************************************)
(* Claims about update_dataset_from_file, under UpdateSpec.                *)
(***************************************************************************)
\* C7: with remove_outputs=True the output_text_filename parameter is ignored:
\* a call that differs only in output_text_filename (None included) makes the
\* same sequence of calls on the dataset, with the same arguments, for every
\* value of compute_state_below and recompute_references.
C7_OutputFilenameIgnored ==
    (pc = "update_returned" /\ call.remove_outputs)
    => \A other \in OutputFilenames :
          UpdateRun(pre, parameters, [call EXCEPT !.output_text_filename = other]).calls
              = log

(***************************************************************************)
(* Claims about check_params, under MainSpec.                              *)
(***************************************************************************)
\* The value is a path (a non-empty string) that does not end with '.npy'.
PathNotEndingInNpy(value) ==
    /\ value[1] = "str"
    /\ value[2] # ""
    /\ ~(Len(value[2]) >= 4 /\ SubSeq(value[2], Len(value[2]) - 3, Len(value[2])) = ".npy")

\* The warnings the claim expects of check_params(params).
ClaimedWarnings(params) ==
    (IF PathNotEndingInNpy(params["SRC_PRETRAINED_VECTORS"]) THEN <<NpyMessage>> ELSE <<>>)
    \o (IF PathNotEndingInNpy(params["TRG_PRETRAINED_VECTORS"]) THEN <<NpyMessage>> ELSE <<>>)

\* C11: check_params emits the 'not in npy format' warning for
\* SRC_PRETRAINED_VECTORS (TRG_PRETRAINED_VECTORS) exactly when that parameter
\* is a non-empty path that does not end with '.npy'; a non-empty path ending
\* in '.npy' and an empty or None value produce no warning.  Checked when the
\* program's first check_params has returned.
C11_NpyWarningExactlyWhenNotNpy ==
    pc = "main_mode" => out.warnings = ClaimedWarnings(parameters)

(***************************************************************************)
(* More claims about update_dataset_from_file, under UpdateSpec.           *)
(***************************************************************************)
\* C12: update_dataset_from_file never builds or changes a vocabulary: every
\* setOutput call and every setInput call of type 'text' it makes passes
\* build_vocabulary=False, and every setInput, setOutput and setRawInput call
\* passes overwrite_split=True, whatever the splits, the output file name,
\* remove_outputs, compute_state_below and the parameters are.
C12_NeverBuildsVocabulary ==
    \A i \in 1..Len(log) :
        /\ (log[i].fn = "setOutput" \/ (log[i].fn = "setInput" /\ log[i].type = "text"))
              => log[i].build_vocabulary = "False"
        /\ log[i].fn \in {"setInput", "setOutput", "setRawInput"}
              => log[i].overwrite_split = "True"

\* A call that registered an output, the source text, the state below and the
\* raw input of two splits.
C12_Witness ==
    /\ pc = "update_returned"
    /\ call.splits = <<"val", "test">>
    /\ Cardinality(Calls("setOutput")) = 2
    /\ Cardinality(Calls("setRawInput")) = 2
    /\ \E i \in Calls("setInput") :
          log[i].id = "state_below" /\ log[i].type = "text" /\ log[i].split = "test"

\* recompute_references passed True, an output file name given, outputs not removed.
RecomputeAsked ==
    call.recompute_references /\ call.output_text_filename # "None" /\ ~call.remove_outputs

\* The position in the log of the k-th call of keep_n_captions (0 for k = 0).
KeepPosition(k) ==
    IF k = 0 THEN 0
    ELSE CHOOSE i \in Calls("keep_n_captions") :
            Cardinality({j \in Calls("keep_n_captions") : j <= i}) = k

\* C13: update_dataset_from_file calls keep_n_captions only if
\* recompute_references was passed True, output_text_filename is not None and
\* remove_outputs is False; then, in a call that returns, it is called once for
\* each split of splits, after the setOutput and setInput calls of that split,
\* with repeat=1, n=1 and set_names=params['EVAL_ON_SETS']; otherwise never.
C13_KeepOnlyWhenRecomputing ==
    /\ ~RecomputeAsked => Calls("keep_n_captions") = {}
    /\ \A i \in Calls("keep_n_captions") : log[i] = KeepCall(1, 1, parameters.EVAL_ON_SETS)
    /\ (pc = "update_returned" /\ RecomputeAsked) =>
          LET splits == DefaultSplits(call.splits)
          IN  /\ Cardinality(Calls("keep_n_captions")) = Len(splits)
              /\ Calls("keep_n_captions") # {} => Len(log) \in Calls("keep_n_captions")
              /\ \A k \in 1..Len(splits) :
                    LET between == (KeepPosition(k - 1) + 1)..(KeepPosition(k) - 1)
                    IN  /\ \A i \in between : log[i].split = splits[k]
                        /\ \E i \in between : log[i].fn = "setOutput"
                        /\ \E i \in between : log[i].fn = "setInput"

C13_Witness ==
    /\ pc = "update_returned"
    /\ RecomputeAsked
    /\ call.splits = <<"test", "val">>
    /\ Cardinality(Calls("keep_n_captions")) = 2
    /\ log[Len(log)] = KeepCall(1, 1, parameters.EVAL_ON_SETS)

(***************************************************************************)
(* Claims about buildCallbacks and the word mapping, under RunSpec.        *)
(***************************************************************************)
\* The classes of the callbacks of the list, in order.
CallbackClasses == [i \in 1..Len(call.callbacks) |-> call.callbacks[i].class]

\* C14: buildCallbacks returns a list that contains the metric-evaluation
\* callback iff params['METRICS'] is non-empty and the sampling callback iff
\* params['SAMPLE_ON_SETS'] is non-empty, the metric callback before the
\* sampling callback when both are there, and the empty list when neither is
\* selected.
C14_CallbacksAsSelected ==
    pc = "callbacks_returned" =>
        CallbackClasses =
            (IF parameters.METRICS # <<>>
             THEN <<"PrintPerformanceMetricOnEpochEndOrEachNUpdates">> ELSE <<>>)
            \o (IF parameters.SAMPLE_ON_SETS # <<>> THEN <<"SampleEachNUpdates">> ELSE <<>>)

C14_Witness ==
    /\ pc = "callbacks_returned"
    /\ parameters.METRICS # <<>> /\ parameters.SAMPLE_ON_SETS # <<>>
    /\ parameters.EVAL_ON_SETS = <<>>
    /\ CallbackClasses =
          <<"PrintPerformanceMetricOnEpochEndOrEachNUpdates", "SampleEachNUpdates">>

\* C15: a word mapping is loaded before it is used.  On the rebuild path
\* build_dataset calls ds.loadMapping(params['MAPPING']) iff POS_UNK is truthy
\* and HEURISTIC > 0; buildCallbacks and apply_NMT_model read dataset.mapping
\* only when BEAM_SIZE is set, POS_UNK is truthy and HEURISTIC > 0; so, with
\* the same params, every read of dataset.mapping comes after the loadMapping
\* call.
C15_MappingLoadedBeforeUse ==
    /\ (parameters.REBUILD_DATASET /\ log # <<>>) =>
          ((Calls("loadMapping") # {}) <=> (parameters.POS_UNK /\ parameters.HEURISTIC > 0))
    /\ \A i \in Calls("loadMapping") : log[i] = StoreCall("loadMapping", parameters.MAPPING)
    /\ \A i \in Calls("dataset.mapping") :
          /\ parameters.BEAM_SIZE # 0 /\ parameters.POS_UNK /\ parameters.HEURISTIC > 0
          /\ parameters.REBUILD_DATASET => \E j \in Calls("loadMapping") : j < i

\* Both callbacks of a training run, and a sampling run, read the mapping that
\* the rebuild loaded.
C15_Witness ==
    /\ parameters.REBUILD_DATASET
    /\ Calls("loadMapping") # {}
    /\ \/ pc = "callbacks_returned" /\ Cardinality(Calls("dataset.mapping")) = 2
       \/ pc = "apply_returned" /\ Cardinality(Calls("dataset.mapping")) = 2

(***************************************************************************)
(* Claims about repeated calls of keep_n_captions, under AgainSpec.        *)
(***************************************************************************)
\* C16: keep_n_captions with repeat=1 and n=1 is idempotent: called again, any
\* number of times and with the same set_names, on a dataset it has processed,
\* it returns and leaves ds.X_<split>, ds.Y_<split>, ds.len_<split> and
\* ds.extra_variables[split] of every processed split as the first call left
\* them.
C16_KeepOnceIdempotent ==
    (call.repeat = 1 /\ call.n = 1 /\ log # <<>>) =>
        /\ pc # "keep_raised"
        /\ pc = "keep_returned" =>
              \A s \in Processed :
                  /\ ds.X[s] = log[1].returned.X[s]
                  /\ ds.Y[s] = log[1].returned.Y[s]
                  /\ ds.len[s] = log[1].returned.len[s]
                  /\ ds.extra_variables[s] = log[1].returned.extra_variables[s]

\* The third call has returned, on a split of six samples with a ghost input.
C16_Witness ==
    /\ pc = "keep_returned"
    /\ call.repeat = 1 /\ call.n = 1
    /\ Len(log) = 2
    /\ call.set_names = <<"val", "test">>
    /\ ds.len["val"] = 6
    /\ ds.optional_inputs # {}
    /\ ds.Y["val"]["target_text"] = FullList("target_text", 6)
    /\ DOMAIN ds.extra_variables["val"]["target_text"] = 0..5
    /\ ds = log[1].returned

(***************************************************************************)
(* One more claim about keep_n_captions, under KeepSpec.                   *)
(***************************************************************************)
\* C17: inputs and outputs stay aligned: when keep_n_captions returns with
\* n <= repeat, in every processed split the list of every input id that is
\* not optional and the list of every output id have the new ds.len_<split>
\* entries, and entry i of each input comes from the same original position as
\* entry i of each output.
C17_InputsOutputsAligned ==
    (pc = "keep_returned" /\ call.n <= call.repeat) =>
        \A s \in Processed :
            /\ \A id \in InputIds \ ds.optional_inputs : Len(ds.X[s][id]) = ds.len[s]
            /\ \A id \in OutputIds : Len(ds.Y[s][id]) = ds.len[s]
            /\ \A x \in InputIds \ ds.optional_inputs : \A y \in OutputIds :
                  \A i \in 1..ds.len[s] : ds.X[s][x][i][2] = ds.Y[s][y][i][2]

C17_Witness ==
    /\ pc = "keep_returned"
    /\ call.repeat = 3 /\ call.n = 2
    /\ "val" \in Processed
    /\ pre.len["val"] = 6
    /\ ds.len["val"] = 4
    /\ ds.optional_inputs = {}
    /\ "state_below" \in InputIds /\ "target_2" \in OutputIds
    /\ ds.X["val"]["state_below"] = <<<<"state_below", 0>>, <<"state_below", 1>>,
                                      <<"state_below", 3>>, <<"state_below", 4>>>>
    /\ ds.Y["val"]["target_2"] = <<<<"target_2", 0>>, <<"target_2", 1>>,
                                   <<"target_2", 3>>, <<"target_2", 4>>>>

=============================================================================
